---- MODULE Spec2Model ----
(***************************************************************************)
(* Model of src/script.js (PortfolioApp): the particle field, the cursor   *)
(* follower, the throttled scroll and debounced resize handling, the       *)
(* loading screen, the theme, the typing effect, the contact form, and     *)
(* the init() that starts them.                                            *)
(*                                                                         *)
(* Numbers.  JavaScript numbers are modelled as exact fixed-point values:  *)
(*   - particle coordinates, velocities and radii are integers in units of *)
(*     1/UnitsPerPx pixel (1/8 px), so CONFIG.particles.speed = 0.5 px is  *)
(*     ParticleSpeed = 4 units and a velocity component                    *)
(*     (Math.random() - 0.5) * speed lies in -2 .. 1 units;                *)
(*   - cursor coordinates are integers in units of 1/LerpScale pixel,      *)
(*     LerpScale = 20^MaxFrames, which makes MaxFrames successive          *)
(*     interpolation steps with factor 3/20 = 0.15 exact;                  *)
(*   - canvas, container and viewport sizes are whole pixels.              *)
(* Rounding of IEEE doubles is not modelled.                               *)
(*                                                                         *)
(* Time.  A pending setTimeout is a record of the timer queue with the     *)
(* time left before it is due, in the time units of setTimeout; time       *)
(* passes by the action Tick, never past a due timer.  Specifications      *)
(* without Tick abstract from time: a pending timer may fire at any moment.*)
(*                                                                         *)
(* Strings.  A string the program takes apart (a field value, a typed      *)
(* text) is a sequence of one-character strings.                           *)
(***************************************************************************)
EXTENDS Integers, Sequences, FiniteSets, TLC

VARIABLES
    pc,               \* "loading" before DOMContentLoaded, "ready" after new PortfolioApp()
    isReducedMotion,  \* STATE.isReducedMotion
    innerWidth,       \* window.innerWidth (px)
    dom,              \* which of the anchors ".cursor", ".hero" the document holds
    heroW, heroH,     \* hero.offsetWidth, hero.offsetHeight (px)
    initialized,      \* the steps of init() that have returned, in order
    appError,         \* an exception escaped init()
    initWidth,        \* window.innerWidth as init() read it (0 before init)
    mousePosition,    \* STATE.mousePosition, <<x, y>> (px)
    cursorElTarget,   \* targetX/targetY properties set on the .cursor element, <<>> if unset
    currentX, currentY, targetX, targetY,  \* closure variables of initializeCursor
    cursorTransform,  \* translate3d offsets of cursor.style.transform, <<>> if never set
    cursorDisplay,    \* cursor.style.display as set by handleWindowResize
    cursorRaf,        \* pending requestAnimationFrame(updateCursor) callbacks
    canvasExists,     \* createParticleCanvas created the canvas
    canvasW, canvasH, \* canvas.width, canvas.height (px)
    particles,        \* the particles array
    frameOps,         \* fill and stroke calls issued by the latest run of animate
    particleRaf,      \* pending requestAnimationFrame(animate) callbacks
    resizeTimer,      \* the debounce timer of the resize listener is pending
    frames,           \* animation frames delivered by the browser since init()
    resizeCount,      \* resize events delivered since init()
    linked,           \* all particles were created within 50 px of each other and
                      \* have been within 100 px at the end of every frame so far
    timers,           \* the pending setTimeout calls, oldest first: [kind, left]
    since,            \* time elapsed since the latest resize event, valid submit and
                      \* completed submission, each capped at AgeCap
    resizeHandled,    \* runs of handleWindowResize since the latest resize event
    isLoading,        \* STATE.isLoading
    loadingScreen,    \* the .loading-screen element: "absent", "shown", "hidden", "removed"
    animationsStarted,\* startAnimations() has run
    currentTheme,     \* STATE.currentTheme
    storedTheme,      \* localStorage 'theme': <<>> for null, else <<string>>
    dataTheme,        \* the data-theme attribute of <html>: <<>> if unset, else <<string>>
    themeHistory,     \* STATE.currentTheme at script load and after each toggle
    pageYOffset,      \* window.pageYOffset (px)
    scrollY,          \* STATE.scrollY
    navScrolled,      \* #navbar carries the class "scrolled"
    inThrottle,       \* the inThrottle flag of the throttled scroll listener
    canvasDisplay,    \* canvas.style.display
    fieldAttrs,       \* the fields of #contactForm: their type, whether required
    fieldValue,       \* the value of each field of #contactForm
    validity,         \* what validateField returned for each field since its value
                      \* last changed: "valid", "invalid", or "unchecked"
    fieldError,       \* the text of each field's .error-message, "" if there is none
    btnLoading,       \* .submit-btn carries the class "loading" and is disabled
    successDiv,       \* the .success-message element the form holds, 0 if none;
                      \* elements are numbered from 1
    removeTargets,    \* the elements the pending timers of showFormSuccess will
                      \* remove, oldest timer first
    currentTextIndex, currentCharIndex, isDeleting,  \* closure variables of initializeTypingEffect
    textContent       \* textContent of .typing-text

motionVars == <<pc, isReducedMotion, innerWidth, dom, heroW, heroH, initialized,
                appError, initWidth, mousePosition, cursorElTarget, currentX, currentY,
                targetX, targetY, cursorTransform, cursorDisplay, cursorRaf,
                canvasExists, canvasW, canvasH, particles, frameOps, particleRaf,
                resizeTimer, frames, resizeCount, linked>>

timerVars == <<timers, since, resizeHandled>>

loadVars == <<isLoading, loadingScreen, animationsStarted>>

themeVars == <<currentTheme, storedTheme, dataTheme, themeHistory>>

scrollVars == <<pageYOffset, scrollY, navScrolled, inThrottle>>

formVars == <<fieldAttrs, fieldValue, validity, fieldError, btnLoading, successDiv,
              removeTargets>>

typingVars == <<currentTextIndex, currentCharIndex, isDeleting, textContent>>

pageVars == <<loadVars, themeVars, scrollVars, formVars, typingVars, canvasDisplay>>

vars == <<motionVars, timerVars, pageVars>>

----------------------------------------------------------------------------
(* Bounds of the model *)

MaxFrames == 3

MaxResizes == 2

MaxToggles == 3

MaxValueLen == 5

ParticleCount == 2

(* Program constants *)

ParticleSpeed == 4

FollowSpeedNum == 3

FollowSpeedDen == 20

CursorSize == 20

MobileBreakpoint == 768

ConnectDistancePx == 100

ThrottleLimit == 16

DebounceWait == 250

LoadingDelay == 2000

HideDelay == 500

NavScrollThreshold == 50

TypingStartDelay == 2000

TypingSpeed == 100

DeleteSpeed == 50

DelayBetweenTexts == 2000

NextTextDelay == 500

SubmitDelay == 2000

SuccessLifetime == 5000

UnitsPerPx == 2 * ParticleSpeed

LerpScale == FollowSpeedDen ^ MaxFrames

ConnectDistance == ConnectDistancePx * UnitsPerPx

Abs(n) == IF n < 0 THEN -n ELSE n

Min(a, b) == IF a < b THEN a ELSE b

\* Elapsed times are followed up to the longest delay of the program.
AgeCap == SuccessLifetime

----------------------------------------------------------------------------
(* Inputs *)

\* Viewport width and hero size delivered by the environment: a desktop layout
\* whose hero is wider than the connection distance, and a mobile layout.
Layouts ==
    { [innerWidth |-> 1024, heroW |-> 101, heroH |-> 1],
      [innerWidth |-> 768,  heroW |-> 50,  heroH |-> 1] }

\* Tiny layouts, used where frames run without bound.
SmallLayouts ==
    { [innerWidth |-> 1024, heroW |-> 2, heroH |-> 1],
      [innerWidth |-> 1000, heroW |-> 1, heroH |-> 1] }

\* Pointer positions (px).
PointerSamples == { <<7, 20>> }

\* The anchors init() and the handlers look up in the document.
AllAnchors == {"loading", "cursor", "hero", "typing", "form", "themeSwitch", "navbar"}

\* Documents with every anchor, or with every anchor but one.
AnchorSamples == {AllAnchors} \cup {AllAnchors \ {a} : a \in AllAnchors}

\* Values of localStorage 'theme': null, and strings.
ThemeSamples == { <<>>, <<"">>, <<"light">>, <<"dark">>, <<"blue">> }

\* The characters field values are made of: a letter, '@', '.', a space.
Alphabet == {"a", "@", ".", " "}

\* Field values: every string over the alphabet up to the length bound, and
\* the addresses 'a@b.co' and 'a@b'.
ValueSamples ==
    UNION {[1..n -> Alphabet] : n \in 0..MaxValueLen}
        \cup { <<"a", "@", "b", ".", "c", "o">>, <<"a", "@", "b">> }

\* Values typed into the fields of the form: a word, and an address.
TypedSamples == { <<"a">>, <<"a", "@", "a", ".", "a">> }

\* A field under validation: any type, required or not.
AttrSamples == [type : {"text", "email"}, required : BOOLEAN]

\* Scroll offsets (px): the top of the page, and one beyond the navbar threshold.
ScrollSamples == { 0, 2 * NavScrollThreshold }

\* Math.random() * canvas.width lies in [0, width): 0 when the canvas is empty.
PositionSamples(size) ==
    IF size = 0 THEN {0} ELSE {0, size * UnitsPerPx - 1}

\* (Math.random() - 0.5) * CONFIG.particles.speed lies in [-speed/2, speed/2).
VelocityXSamples == { -(ParticleSpeed \div 2), 1 }

VelocityYSamples == { -1 }

\* Math.random() * 2 + 1 px
RadiusSamples == { UnitsPerPx + 3 }

\* Math.random() * 0.5 + 0.2, in hundredths
OpacitySamples == { 45 }

ParticleSamples(w, h) ==
    [ x : PositionSamples(w), y : PositionSamples(h),
      vx : VelocityXSamples, vy : VelocityYSamples,
      radius : RadiusSamples, opacity : OpacitySamples ]

----------------------------------------------------------------------------
(* The timer queue *)

\* setTimeout(callback, delay): the callback is named by its kind.
setTimeout(ts, kind, delay) == Append(ts, [kind |-> kind, left |-> delay])

\* clearTimeout of the timers of one kind.
clearTimeout(ts, kind) == SelectSeq(ts, LAMBDA t : t.kind # kind)

Pending(kind) == \E i \in DOMAIN timers : timers[i].kind = kind

\* The oldest pending timer of a kind.
Oldest(ts, kind) ==
    CHOOSE i \in DOMAIN ts :
        ts[i].kind = kind /\ \A j \in 1..(i - 1) : ts[j].kind # kind

\* The queue once the oldest timer of a kind has fired.
Fired(ts, kind) ==
    [i \in 1..(Len(ts) - 1) |-> IF i < Oldest(ts, kind) THEN ts[i] ELSE ts[i + 1]]

\* The oldest timer of a kind is due, and no timer set before it is due too:
\* timers due at the same instant fire in the order they were set.
Due(kind) ==
    /\ Pending(kind)
    /\ timers[Oldest(timers, kind)].left = 0
    /\ \A j \in 1..(Oldest(timers, kind) - 1) : timers[j].left > 0

\* The least time left on a pending timer (the steps given, if there is none).
NextDue(ts, steps) ==
    IF ts = <<>> THEN steps
    ELSE { CHOOSE d \in {ts[i].left : i \in DOMAIN ts} :
               \A i \in DOMAIN ts : d <= ts[i].left }

----------------------------------------------------------------------------
(* utils.lerp and the cursor follower *)

\* lerp stepping away from end instead of toward it.
lerpAway(start, end, num, den) == start + ((start - end) * num) \div den

\* utils.lerp(start, end, factor), the factor given as the fraction num/den.
lerp(start, end, num, den) == start + ((end - start) * num) \div den

\* updateCursor without its requestAnimationFrame.
updateCursorOnce(cur, tgt) ==
    [ current   |-> <<lerp(cur[1], tgt[1], FollowSpeedNum, FollowSpeedDen),
                      lerp(cur[2], tgt[2], FollowSpeedNum, FollowSpeedDen)>>,
      transform |-> << lerp(cur[1], tgt[1], FollowSpeedNum, FollowSpeedDen)
                           - (CursorSize * LerpScale) \div 2,
                       lerp(cur[2], tgt[2], FollowSpeedNum, FollowSpeedDen)
                           - (CursorSize * LerpScale) \div 2 >>,
      scheduled |-> 0 ]

\* One run of updateCursor on the closure variables cur = <<currentX, currentY>>
\* and tgt = <<targetX, targetY>>: the new rendered position, the translate3d
\* offsets written to cursor.style.transform, and the callback it schedules.
updateCursor(cur, tgt) ==
    LET nx == lerp(cur[1], tgt[1], FollowSpeedNum, FollowSpeedDen)
        ny == lerp(cur[2], tgt[2], FollowSpeedNum, FollowSpeedDen)
    IN  [ current   |-> <<nx, ny>>,
          transform |-> << nx - (CursorSize * LerpScale) \div 2,
                           ny - (CursorSize * LerpScale) \div 2 >>,
          scheduled |-> 1 ]

\* The guard with the breakpoint itself counted as a desktop width.
MotionAllowedStrict(rm, iw) == ~(rm \/ iw < MobileBreakpoint)

\* The guard shared by initializeCursor and initializeParticles.
MotionAllowed(rm, iw) == ~(rm \/ iw <= MobileBreakpoint)

\* initializeCursor: whether the follower started, and whether it threw.
initializeCursor(rm, iw, d) ==
    IF ~MotionAllowed(rm, iw) THEN [started |-> FALSE, threw |-> FALSE]
    ELSE IF "cursor" \notin d THEN [started |-> FALSE, threw |-> FALSE]
    ELSE [started |-> TRUE, threw |-> FALSE]

----------------------------------------------------------------------------
(* The particle field *)

\* resizeCanvas with the two dimensions exchanged.
resizeCanvasSwapped(hw, hh) == <<hh, hw>>

\* resizeCanvas: canvas.width and canvas.height from the hero's offset size.
resizeCanvas(hw, hh) == <<hw, hh>>

\* createParticleCanvas: null without a .hero, else a canvas of the hero's size.
createParticleCanvas(d, hw, hh) ==
    IF "hero" \notin d
    THEN [exists |-> FALSE, w |-> 0, h |-> 0]
    ELSE [exists |-> TRUE, w |-> resizeCanvas(hw, hh)[1], h |-> resizeCanvas(hw, hh)[2]]

\* The edge test without the far edge.
HitsEdgeNearOnly(pos, size) == pos <= 0

\* The edge test with strict comparisons.
HitsEdgeStrict(pos, size) == pos < 0 \/ pos > size

\* "Bounce off edges": the test of one coordinate against the canvas size.
HitsEdge(pos, size) == pos <= 0 \/ pos >= size

\* Position update and bounce of one particle; w, h are the canvas size in units.
MoveParticle(p, w, h) ==
    LET nx == p.x + p.vx
        ny == p.y + p.vy
    IN  [p EXCEPT !.x = nx, !.y = ny,
                  !.vx = IF HitsEdge(nx, w) THEN -p.vx ELSE p.vx,
                  !.vy = IF HitsEdge(ny, h) THEN -p.vy ELSE p.vy]

Dist2(p, q) == (p.x - q.x) * (p.x - q.x) + (p.y - q.y) * (p.y - q.y)

\* distance < 100, with distance = Math.sqrt(dx * dx + dy * dy)
Connects(p, q) == Dist2(p, q) < ConnectDistance * ConnectDistance

\* ctx.arc / ctx.fill of particle i.
FillOp(ps, i) ==
    [op |-> "fill", p |-> i, x |-> ps[i].x, y |-> ps[i].y,
     radius |-> ps[i].radius, alpha |-> ps[i].opacity]

\* ctx.moveTo / lineTo / stroke from particle i to particle j. The stroke's alpha
\* is 0.1 * (1 - distance / 100), a function of d2 = distance squared.
StrokeOp(ps, i, j) ==
    [op |-> "stroke", p |-> i, q |-> j,
     x1 |-> ps[i].x, y1 |-> ps[i].y, x2 |-> ps[j].x, y2 |-> ps[j].y,
     d2 |-> Dist2(ps[i], ps[j])]

\* The inner loop visiting only the particles after particle i.
ConnectOpsForward(ps, i) ==
    SelectSeq([j \in 1..Len(ps) |-> StrokeOp(ps, i, j)],
              LAMBDA s : s.q > i /\ s.d2 < ConnectDistance * ConnectDistance)

\* The inner particles.forEach of particle i: one stroke per particle in range.
ConnectOps(ps, i) ==
    SelectSeq([j \in 1..Len(ps) |-> StrokeOp(ps, i, j)],
              LAMBDA s : s.d2 < ConnectDistance * ConnectDistance)

\* The outer particles.forEach from particle i on. The array is updated in
\* place, so particle i is drawn against the new positions of the particles
\* before it and the old positions of the particles after it. (moved is bound
\* over a singleton so that it is evaluated once.)
RECURSIVE AnimateFrom(_, _, _, _, _)
AnimateFrom(ps, i, w, h, ops) ==
    IF i > Len(ps) THEN [particles |-> ps, ops |-> ops]
    ELSE CHOOSE r \in
             { AnimateFrom(moved, i + 1, w, h,
                           ops \o <<FillOp(moved, i)>> \o ConnectOps(moved, i)) :
                   moved \in {[ps EXCEPT ![i] = MoveParticle(ps[i], w, h)]} } : TRUE

\* One run of animate on a canvas of cw x ch pixels.
animate(ps, cw, ch) == AnimateFrom(ps, 1, cw * UnitsPerPx, ch * UnitsPerPx, <<>>)

\* What initializeParticles leaves when it returns early: no canvas kept, no
\* particle, no frame requested.
NoField ==
    [started |-> FALSE, threw |-> FALSE, canvas |-> FALSE,
     w |-> 0, h |-> 0, particles |-> <<>>, ops |-> <<>>]

\* initializeParticles without the test of the canvas: canvas.getContext
\* throws on null.
initializeParticlesUnchecked(rm, iw, d, hw, hh, ps) ==
    LET canvas == createParticleCanvas(d, hw, hh)
        first  == animate(ps, canvas.w, canvas.h)
    IN  IF ~MotionAllowed(rm, iw) THEN NoField
        ELSE IF ~canvas.exists THEN [NoField EXCEPT !.threw = TRUE]
        ELSE [started |-> TRUE, threw |-> FALSE, canvas |-> TRUE,
              w |-> canvas.w, h |-> canvas.h,
              particles |-> first.particles, ops |-> first.ops]

\* initializeParticles with the freshly created particles ps.
initializeParticles(rm, iw, d, hw, hh, ps) ==
    LET canvas == createParticleCanvas(d, hw, hh)
        first  == animate(ps, canvas.w, canvas.h)
    IN  IF ~MotionAllowed(rm, iw) THEN NoField
        ELSE IF ~canvas.exists THEN NoField
        ELSE [started |-> TRUE, threw |-> FALSE, canvas |-> TRUE,
              w |-> canvas.w, h |-> canvas.h,
              particles |-> first.particles, ops |-> first.ops]

\* Every pair of particles is less than limit units apart.
AllWithin(ps, limit) ==
    \A i, j \in 1..Len(ps) : Dist2(ps[i], ps[j]) < limit * limit

----------------------------------------------------------------------------
(* init() *)

InitSteps ==
    << "setupEventListeners", "initializeTheme", "initializeLoading",
       "initializeCursor", "initializeNavigation", "initializeAnimations",
       "initializeTypingEffect", "initializeSkillBars", "initializeContactForm",
       "initializeParticles" >>

\* The steps of init() that return when initializeCursor / initializeParticles
\* throw or not: an exception leaves init() at the step that threw.
StepsDone(cursorThrew, particlesThrew) ==
    IF cursorThrew THEN SubSeq(InitSteps, 1, 3)
    ELSE IF particlesThrew THEN SubSeq(InitSteps, 1, 9)
    ELSE InitSteps

\* The program state that new PortfolioApp() leaves behind, for reduced-motion
\* flag rm, viewport width iw, anchors d, hero size hw x hh and created
\* particles ps. Both loops run their first frame synchronously.
PostInit(rm, iw, d, hw, hh, ps) ==
    LET cur == initializeCursor(rm, iw, d)
        par == IF cur.threw
               THEN NoField
               ELSE initializeParticles(rm, iw, d, hw, hh, ps)
        uc  == updateCursor(<<0, 0>>, <<0, 0>>)
    IN  [ initialized     |-> StepsDone(cur.threw, par.threw),
          appError        |-> cur.threw \/ par.threw,
          currentX        |-> IF cur.started THEN uc.current[1] ELSE 0,
          currentY        |-> IF cur.started THEN uc.current[2] ELSE 0,
          cursorTransform |-> IF cur.started THEN uc.transform ELSE <<>>,
          cursorRaf       |-> IF cur.started THEN uc.scheduled ELSE 0,
          canvasExists    |-> par.canvas,
          canvasW         |-> par.w,
          canvasH         |-> par.h,
          particles       |-> par.particles,
          frameOps        |-> par.ops,
          particleRaf     |-> IF par.started THEN 1 ELSE 0,
          linked          |-> /\ par.started
                              /\ AllWithin(ps, (ConnectDistance \div 2) + 1)
                              /\ AllWithin(par.particles, ConnectDistance) ]

\* What initializeTheme, initializeLoading and initializeTypingEffect leave
\* behind with the anchors d: the data-theme attribute and the timers set.
PostInitPage(d, theme) ==
    [ dataTheme |-> <<theme>>,
      timers    |-> IF "typing" \in d
                    THEN setTimeout(setTimeout(<<>>, "load", LoadingDelay),
                                    "type", TypingStartDelay)
                    ELSE setTimeout(<<>>, "load", LoadingDelay) ]

\* The fields of #contactForm: their type and whether they are required.
FormFields ==
    [ name    |-> [type |-> "text",     required |-> TRUE],
      email   |-> [type |-> "email",    required |-> TRUE],
      message |-> [type |-> "textarea", required |-> TRUE] ]

\* A form of the fields attrs holding the values given, no field validated.
FormWith(attrs, values) ==
    /\ fieldAttrs = attrs
    /\ fieldValue = values
    /\ validity = [f \in DOMAIN attrs |-> "unchecked"]
    /\ fieldError = [f \in DOMAIN attrs |-> ""]
    /\ btnLoading = FALSE
    /\ successDiv = 0
    /\ removeTargets = <<>>

\* A form of the fields attrs, untouched.
FormState(attrs) == FormWith(attrs, [f \in DOMAIN attrs |-> <<>>])

\* STATE.currentTheme as the script sets it: localStorage.getItem('theme') ||
\* 'light', null and the empty string being falsy.
initialTheme(stored) ==
    IF stored = <<>> \/ stored = <<"">> THEN "light" ELSE stored[1]

\* STATE and the document but for the form, with stored the value of
\* localStorage 'theme', dt the data-theme attribute and ts the timers set,
\* no event handled yet.
PageCore(stored, dt, ts) ==
    /\ timers = ts
    /\ since = [resize |-> AgeCap, submit |-> AgeCap, success |-> AgeCap]
    /\ resizeHandled = 0
    /\ isLoading = TRUE
    /\ loadingScreen = IF "loading" \in dom THEN "shown" ELSE "absent"
    /\ animationsStarted = FALSE
    /\ currentTheme = initialTheme(stored)
    /\ storedTheme = stored
    /\ dataTheme = dt
    /\ themeHistory = <<initialTheme(stored)>>
    /\ pageYOffset = 0
    /\ scrollY = 0
    /\ navScrolled = FALSE
    /\ inThrottle = FALSE
    /\ canvasDisplay = ""
    /\ currentTextIndex = 0
    /\ currentCharIndex = 0
    /\ isDeleting = FALSE
    /\ textContent = <<>>

PageState(stored, dt, ts) ==
    /\ PageCore(stored, dt, ts)
    /\ FormState(FormFields)

\* The page once the script has been evaluated, before DOMContentLoaded.
LoadingPage(stored) == PageState(stored, <<>>, <<>>)

\* The page as init() leaves it, with the anchors d.
ReadyPage(stored, d) ==
    PageState(stored, PostInitPage(d, initialTheme(stored)).dataTheme,
              PostInitPage(d, initialTheme(stored)).timers)

\* The motion state of the page before DOMContentLoaded, in layout l.
LoadingMotion(rm, d, l) ==
    /\ pc = "loading"
    /\ isReducedMotion = rm
    /\ innerWidth = l.innerWidth
    /\ dom = d
    /\ heroW = l.heroW /\ heroH = l.heroH
    /\ initialized = <<>>
    /\ appError = FALSE
    /\ initWidth = 0
    /\ mousePosition = <<0, 0>>
    /\ cursorElTarget = <<>>
    /\ currentX = 0 /\ currentY = 0 /\ targetX = 0 /\ targetY = 0
    /\ cursorTransform = <<>>
    /\ cursorDisplay = ""
    /\ cursorRaf = 0
    /\ canvasExists = FALSE
    /\ canvasW = 0 /\ canvasH = 0
    /\ particles = <<>>
    /\ frameOps = <<>>
    /\ particleRaf = 0
    /\ resizeTimer = FALSE
    /\ frames = 0
    /\ resizeCount = 0
    /\ linked = FALSE

\* The page before DOMContentLoaded, in layout l, with no theme stored.
Loading(rm, d, l) ==
    /\ LoadingMotion(rm, d, l)
    /\ LoadingPage(<<>>)

Init ==
    \E rm \in BOOLEAN, d \in SUBSET {"cursor", "hero"}, l \in Layouts :
        Loading(rm, d, l)

\* DOMContentLoaded: new PortfolioApp() runs init().
Construct ==
    /\ pc = "loading"
    /\ \E ps \in [1..ParticleCount -> ParticleSamples(heroW, heroH)] :
         LET r == PostInit(isReducedMotion, innerWidth, dom, heroW, heroH, ps)
         IN  /\ initialized' = r.initialized
             /\ appError' = r.appError
             /\ currentX' = r.currentX
             /\ currentY' = r.currentY
             /\ cursorTransform' = r.cursorTransform
             /\ cursorRaf' = r.cursorRaf
             /\ canvasExists' = r.canvasExists
             /\ canvasW' = r.canvasW
             /\ canvasH' = r.canvasH
             /\ particles' = r.particles
             /\ frameOps' = r.frameOps
             /\ particleRaf' = r.particleRaf
             /\ linked' = r.linked
    /\ pc' = "ready"
    /\ initWidth' = innerWidth
    /\ dataTheme' = PostInitPage(dom, currentTheme).dataTheme
    /\ timers' = PostInitPage(dom, currentTheme).timers
    /\ UNCHANGED <<isReducedMotion, innerWidth, dom, heroW, heroH, mousePosition,
                   cursorElTarget, targetX, targetY, cursorDisplay, resizeTimer,
                   frames, resizeCount>>
    /\ UNCHANGED <<since, resizeHandled, loadVars, currentTheme, storedTheme,
                   themeHistory, scrollVars, formVars, typingVars, canvasDisplay>>

----------------------------------------------------------------------------
(* Event handlers *)

\* handleMouseMove(e) with e.clientX, e.clientY = pt.
handleMouseMove(pt) ==
    /\ mousePosition' = pt
    /\ cursorElTarget' = IF "cursor" \in dom THEN pt ELSE cursorElTarget
    /\ UNCHANGED <<targetX, targetY>>

MouseMove ==
    /\ pc = "ready"
    /\ \E pt \in PointerSamples : handleMouseMove(pt)
    /\ UNCHANGED <<pc, isReducedMotion, innerWidth, dom, heroW, heroH, initialized,
                   appError, initWidth, currentX, currentY, cursorTransform,
                   cursorDisplay, cursorRaf, canvasExists, canvasW, canvasH,
                   particles, frameOps, particleRaf, resizeTimer, frames,
                   resizeCount, linked>>
    /\ UNCHANGED <<timerVars, pageVars>>

\* The callbacks of one animation frame, in the order they were requested:
\* updateCursor, then animate. Each requests itself again.
FrameBody ==
    /\ pc = "ready"
    /\ cursorRaf > 0 \/ particleRaf > 0
    /\ IF cursorRaf > 0
       THEN \E uc \in {updateCursor(<<currentX, currentY>>, <<targetX, targetY>>)} :
                /\ currentX' = uc.current[1]
                /\ currentY' = uc.current[2]
                /\ cursorTransform' = uc.transform
                /\ cursorRaf' = cursorRaf - 1 + uc.scheduled
       ELSE UNCHANGED <<currentX, currentY, cursorTransform, cursorRaf>>
    /\ IF particleRaf > 0
       THEN \E a \in {animate(particles, canvasW, canvasH)} :
                /\ particles' = a.particles
                /\ frameOps' = a.ops
                /\ particleRaf' = particleRaf - 1 + 1
                /\ linked' = (linked /\ AllWithin(a.particles, ConnectDistance))
       ELSE UNCHANGED <<particles, frameOps, particleRaf, linked>>
    /\ UNCHANGED <<pc, isReducedMotion, innerWidth, dom, heroW, heroH, initialized,
                   appError, initWidth, mousePosition, cursorElTarget, targetX,
                   targetY, cursorDisplay, canvasExists, canvasW, canvasH,
                   resizeTimer, resizeCount>>
    /\ UNCHANGED <<timerVars, pageVars>>

AnimationFrame ==
    /\ frames < MaxFrames
    /\ FrameBody
    /\ frames' = frames + 1

\* utils.debounce without its clearTimeout.
debounceNoClear(ts, kind, wait) == setTimeout(ts, kind, wait)

\* One call of the function utils.debounce returns (immediate not given):
\* the pending timer is cleared and a new one set.
debounce(ts, kind, wait) == setTimeout(clearTimeout(ts, kind), kind, wait)

\* A resize event in layout l: the debounced listener of setupEventListeners
\* restarts its timer, then the resizeCanvas listener runs.
ResizeTo(l) ==
    /\ pc = "ready"
    /\ resizeCount < MaxResizes
    /\ resizeCount' = resizeCount + 1
    /\ innerWidth' = l.innerWidth
    /\ heroW' = l.heroW
    /\ heroH' = l.heroH
    /\ resizeTimer' = TRUE
    /\ timers' = debounce(timers, "resize", DebounceWait)
    /\ since' = [since EXCEPT !.resize = 0]
    /\ resizeHandled' = 0
    /\ IF canvasExists
       THEN /\ canvasW' = resizeCanvas(l.heroW, l.heroH)[1]
            /\ canvasH' = resizeCanvas(l.heroW, l.heroH)[2]
       ELSE UNCHANGED <<canvasW, canvasH>>
    /\ UNCHANGED <<pc, isReducedMotion, dom, initialized, appError, initWidth,
                   mousePosition, cursorElTarget, currentX, currentY, targetX,
                   targetY, cursorTransform, cursorDisplay, cursorRaf, canvasExists,
                   particles, frameOps, particleRaf, frames, linked>>
    /\ UNCHANGED pageVars

WindowResize == \E l \in Layouts : ResizeTo(l)

\* handleWindowResize: the cursor element is hidden at or below the breakpoint
\* and shown above it.
handleWindowResize ==
    cursorDisplay' = IF "cursor" \in dom
                     THEN (IF innerWidth <= MobileBreakpoint THEN "none" ELSE "block")
                     ELSE cursorDisplay

\* The debounce timer fires.
ResizeTimerFire ==
    /\ pc = "ready"
    /\ resizeTimer
    /\ resizeTimer' = FALSE
    /\ timers' = Fired(timers, "resize")
    /\ resizeHandled' = resizeHandled + 1
    /\ handleWindowResize
    /\ UNCHANGED <<pc, isReducedMotion, innerWidth, dom, heroW, heroH, initialized,
                   appError, initWidth, mousePosition, cursorElTarget, currentX,
                   currentY, targetX, targetY, cursorTransform, cursorRaf,
                   canvasExists, canvasW, canvasH, particles, frameOps, particleRaf,
                   frames, resizeCount, linked>>
    /\ UNCHANGED <<since, pageVars>>

\* handleWindowScroll with window.pageYOffset = y.
handleWindowScroll(y) ==
    /\ scrollY' = y
    /\ navScrolled' = IF "navbar" \in dom THEN y > NavScrollThreshold ELSE navScrolled

\* A scroll event at offset y, delivered to the listener that utils.throttle
\* returned: the handler runs unless a call is being throttled.
ScrollTo(y) ==
    /\ pc = "ready"
    /\ y # pageYOffset
    /\ pageYOffset' = y
    /\ IF ~inThrottle
       THEN /\ handleWindowScroll(y)
            /\ inThrottle' = TRUE
            /\ timers' = setTimeout(timers, "throttle", ThrottleLimit)
       ELSE UNCHANGED <<scrollY, navScrolled, inThrottle, timers>>
    /\ UNCHANGED <<motionVars, since, resizeHandled, loadVars, themeVars, formVars,
                   typingVars, canvasDisplay>>

WindowScroll == \E y \in ScrollSamples : ScrollTo(y)

\* The timer of the throttled listener fires.
ThrottleTimerFire ==
    /\ pc = "ready"
    /\ Pending("throttle")
    /\ timers' = Fired(timers, "throttle")
    /\ inThrottle' = FALSE
    /\ UNCHANGED <<motionVars, since, resizeHandled, loadVars, themeVars, formVars,
                   typingVars, canvasDisplay, pageYOffset, scrollY, navScrolled>>

\* measureFPS counted fewer than 30 frames in a second: reducedAnimations.
reducedAnimations ==
    /\ pc = "ready"
    /\ canvasDisplay' = IF canvasExists THEN "none" ELSE canvasDisplay
    /\ UNCHANGED <<motionVars, timerVars, loadVars, themeVars, scrollVars, formVars,
                   typingVars>>

\* The timer of initializeLoading fires: hideLoadingScreen. The element is
\* looked up again, and nothing happens without it.
LoadTimerFire ==
    /\ pc = "ready"
    /\ Pending("load")
    /\ IF loadingScreen \in {"shown", "hidden"}
       THEN /\ loadingScreen' = "hidden"
            /\ timers' = setTimeout(Fired(timers, "load"), "hide", HideDelay)
       ELSE /\ loadingScreen' = loadingScreen
            /\ timers' = Fired(timers, "load")
    /\ UNCHANGED <<motionVars, since, resizeHandled, isLoading, animationsStarted,
                   themeVars, scrollVars, formVars, typingVars, canvasDisplay>>

\* The timer of hideLoadingScreen fires: the element is removed, loading is
\* over, startAnimations runs.
HideTimerFire ==
    /\ pc = "ready"
    /\ Pending("hide")
    /\ timers' = Fired(timers, "hide")
    /\ loadingScreen' = "removed"
    /\ isLoading' = FALSE
    /\ animationsStarted' = TRUE
    /\ UNCHANGED <<motionVars, since, resizeHandled, themeVars, scrollVars, formVars,
                   typingVars, canvasDisplay>>

\* toggleTheme that does not write localStorage.
toggleThemeUnsaved(theme, stored) ==
    [ currentTheme |-> IF theme = "light" THEN "dark" ELSE "light",
      dataTheme    |-> <<IF theme = "light" THEN "dark" ELSE "light">>,
      stored       |-> stored ]

\* toggleTheme on STATE.currentTheme = theme: the new theme, the data-theme
\* attribute and the value of localStorage 'theme'. (The transition style of
\* <body> and the timer that clears it are not followed.)
toggleTheme(theme, stored) ==
    [ currentTheme |-> IF theme = "light" THEN "dark" ELSE "light",
      dataTheme    |-> <<IF theme = "light" THEN "dark" ELSE "light">>,
      stored       |-> <<IF theme = "light" THEN "dark" ELSE "light">> ]

\* A change event of #theme-switch; the listener exists if the element does.
ThemeSwitchChange ==
    /\ pc = "ready"
    /\ "themeSwitch" \in dom
    /\ Len(themeHistory) <= MaxToggles
    /\ \E t \in {toggleTheme(currentTheme, storedTheme)} :
           /\ currentTheme' = t.currentTheme
           /\ dataTheme' = t.dataTheme
           /\ storedTheme' = t.stored
           /\ themeHistory' = Append(themeHistory, t.currentTheme)
    /\ UNCHANGED <<motionVars, timerVars, loadVars, scrollVars, formVars, typingVars,
                   canvasDisplay>>

\* The texts of initializeTypingEffect: 'Full-Stack Developer',
\* 'UI/UX Designer', 'Creative Coder', 'Problem Solver'.
TypingTexts ==
    <<
       <<"F", "u", "l", "l", "-", "S", "t", "a", "c", "k", " ", "D", "e",
         "v", "e", "l", "o", "p", "e", "r">>,
       <<"U", "I", "/", "U", "X", " ", "D", "e", "s", "i", "g", "n", "e",
         "r">>,
       <<"C", "r", "e", "a", "t", "i", "v", "e", " ", "C", "o", "d", "e",
         "r">>,
       <<"P", "r", "o", "b", "l", "e", "m", " ", "S", "o", "l", "v", "e",
         "r">>
    >>

Max(a, b) == IF a > b THEN a ELSE b

\* str.substring(0, end): end is clamped to 0 .. str.length.
substring(str, end) == SubSeq(str, 1, Min(Max(end, 0), Len(str)))

\* type that starts deleting one character before the end of the text.
typeEarly(ti, ci, del) ==
    LET text    == TypingTexts[ti + 1]
        ci2     == IF del THEN ci - 1 ELSE ci + 1
        atEnd   == ~del /\ ci2 = Len(text) - 1
        atStart == ~atEnd /\ del /\ ci2 = 0
    IN  [ textContent      |-> IF del THEN substring(text, ci - 1)
                               ELSE substring(text, ci + 1),
          currentCharIndex |-> ci2,
          isDeleting       |-> IF atEnd THEN TRUE ELSE IF atStart THEN FALSE ELSE del,
          currentTextIndex |-> IF atStart THEN (ti + 1) % Len(TypingTexts) ELSE ti,
          typeSpeed        |-> IF atEnd THEN DelayBetweenTexts
                               ELSE IF atStart THEN NextTextDelay
                               ELSE IF del THEN DeleteSpeed ELSE TypingSpeed ]

\* One run of type on currentTextIndex = ti, currentCharIndex = ci and
\* isDeleting = del: the text shown, the new closure variables and the delay
\* of the timer it sets.
type(ti, ci, del) ==
    LET text    == TypingTexts[ti + 1]
        ci2     == IF del THEN ci - 1 ELSE ci + 1
        atEnd   == ~del /\ ci2 = Len(text)
        atStart == ~atEnd /\ del /\ ci2 = 0
    IN  [ textContent      |-> IF del THEN substring(text, ci - 1)
                               ELSE substring(text, ci + 1),
          currentCharIndex |-> ci2,
          isDeleting       |-> IF atEnd THEN TRUE ELSE IF atStart THEN FALSE ELSE del,
          currentTextIndex |-> IF atStart THEN (ti + 1) % Len(TypingTexts) ELSE ti,
          typeSpeed        |-> IF atEnd THEN DelayBetweenTexts
                               ELSE IF atStart THEN NextTextDelay
                               ELSE IF del THEN DeleteSpeed ELSE TypingSpeed ]

\* The type timer fires: type runs and sets the next timer.
TypeTimerFire ==
    /\ pc = "ready"
    /\ Pending("type")
    /\ \E t \in {type(currentTextIndex, currentCharIndex, isDeleting)} :
           /\ textContent' = t.textContent
           /\ currentCharIndex' = t.currentCharIndex
           /\ isDeleting' = t.isDeleting
           /\ currentTextIndex' = t.currentTextIndex
           /\ timers' = setTimeout(Fired(timers, "type"), "type", t.typeSpeed)
    /\ UNCHANGED <<motionVars, since, resizeHandled, loadVars, themeVars, scrollVars,
                   formVars, canvasDisplay>>

\* The characters \s matches and trim() removes.
Whitespace == {" "}

RECURSIVE trimStart(_)
trimStart(v) ==
    IF v # <<>> /\ Head(v) \in Whitespace THEN trimStart(Tail(v)) ELSE v

RECURSIVE trimEnd(_)
trimEnd(v) ==
    IF v # <<>> /\ v[Len(v)] \in Whitespace
    THEN trimEnd(SubSeq(v, 1, Len(v) - 1)) ELSE v

\* String.prototype.trim
trim(v) == trimEnd(trimStart(v))

\* The numbers of characters of v that [^\s@]+ can have consumed when it
\* starts after one of the numbers in starts.
AfterClass(v, starts) ==
    { e \in 0..Len(v) :
        \E b \in starts :
            b < e /\ \A k \in (b + 1)..e : v[k] \notin Whitespace /\ v[k] # "@" }

\* The same for the single character c.
AfterChar(v, starts, c) ==
    { b + 1 : b \in {a \in starts : a < Len(v) /\ v[a + 1] = c} }

\* The pattern without the dot and the part after it: /^[^\s@]+@[^\s@]+$/
emailRegexNoDot(v) ==
    Len(v) \in AfterClass(v, AfterChar(v, AfterClass(v, {0}), "@"))

\* emailRegex.test(v) for /^[^\s@]+@[^\s@]+\.[^\s@]+$/
emailRegex(v) ==
    Len(v) \in AfterClass(v, AfterChar(v, AfterClass(v,
                   AfterChar(v, AfterClass(v, {0}), "@")), "."))

\* validateField on a field of attributes attr holding raw: what it returns
\* and the message it shows ("" when it shows none).
validateField(attr, raw) ==
    LET value    == trim(raw)
        missing  == attr.required /\ value = <<>>
        badEmail == attr.type = "email" /\ value # <<>> /\ ~emailRegex(value)
    IN  [ valid   |-> ~missing /\ ~badEmail,
          message |-> IF badEmail THEN "Please enter a valid email address"
                      ELSE IF missing THEN "This field is required"
                      ELSE "" ]

\* A blur event on field f: validateField clears the field's message and
\* shows the new one if the field is invalid.
FieldBlur(f) ==
    /\ pc = "ready"
    /\ "form" \in dom
    /\ \E res \in {validateField(fieldAttrs[f], fieldValue[f])} :
           /\ validity' = [validity EXCEPT ![f] = IF res.valid THEN "valid" ELSE "invalid"]
           /\ fieldError' = [fieldError EXCEPT ![f] = res.message]
    /\ UNCHANGED <<motionVars, timerVars, loadVars, themeVars, scrollVars, typingVars,
                   canvasDisplay, fieldAttrs, fieldValue, btnLoading, successDiv,
                   removeTargets>>

Blur == \E f \in DOMAIN fieldAttrs : FieldBlur(f)

\* An input event on field f, its value now v: clearFieldError.
FieldInput(f, v) ==
    /\ pc = "ready"
    /\ "form" \in dom
    /\ v # fieldValue[f]
    /\ fieldValue' = [fieldValue EXCEPT ![f] = v]
    /\ validity' = [validity EXCEPT ![f] = "unchecked"]
    /\ fieldError' = [fieldError EXCEPT ![f] = ""]
    /\ UNCHANGED <<motionVars, timerVars, loadVars, themeVars, scrollVars, typingVars,
                   canvasDisplay, fieldAttrs, btnLoading, successDiv, removeTargets>>

Input == \E f \in DOMAIN fieldAttrs, v \in TypedSamples \cup {<<>>} : FieldInput(f, v)

\* The required fields in document order, as querySelectorAll returns them.
RequiredFields(attrs) ==
    SelectSeq(<<"name", "email", "message">>,
              LAMBDA f : f \in DOMAIN attrs /\ attrs[f].required)

\* validateForm that stops at the first invalid field.
validateFormFirst(attrs, values) ==
    [ f \in {RequiredFields(attrs)[i] : i \in
                {k \in DOMAIN RequiredFields(attrs) :
                    \A j \in 1..(k - 1) :
                        validateField(attrs[RequiredFields(attrs)[j]],
                                      values[RequiredFields(attrs)[j]]).valid}}
        |-> validateField(attrs[f], values[f]) ]

\* validateForm: validateField on every required field; what each call returned.
validateForm(attrs, values) ==
    [ f \in {RequiredFields(attrs)[i] : i \in DOMAIN RequiredFields(attrs)}
        |-> validateField(attrs[f], values[f]) ]

\* setFormLoading that never clears the loading state.
setFormLoadingStuck(loading) == TRUE

\* setFormLoading(submitBtn, loading): the class "loading" and disabled.
setFormLoading(loading) == loading

\* handleFormSubmit. A disabled submit button keeps the browser from
\* submitting the form, so no submit event arrives while the button is in the
\* loading state.
Submit ==
    /\ pc = "ready"
    /\ "form" \in dom
    /\ ~btnLoading
    /\ \E res \in {validateForm(fieldAttrs, fieldValue)} :
           /\ validity' = [f \in DOMAIN validity |->
                              IF f \in DOMAIN res
                              THEN (IF res[f].valid THEN "valid" ELSE "invalid")
                              ELSE validity[f]]
           /\ fieldError' = [f \in DOMAIN fieldError |->
                                IF f \in DOMAIN res THEN res[f].message ELSE fieldError[f]]
           /\ IF \A f \in DOMAIN res : res[f].valid
              THEN /\ btnLoading' = setFormLoading(TRUE)
                   /\ timers' = setTimeout(timers, "submit", SubmitDelay)
                   /\ since' = [since EXCEPT !.submit = 0]
              ELSE UNCHANGED <<btnLoading, timers, since>>
    /\ UNCHANGED <<motionVars, resizeHandled, loadVars, themeVars, scrollVars,
                   typingVars, canvasDisplay, fieldAttrs, fieldValue, successDiv,
                   removeTargets>>

\* showFormSuccess on the message element div (0 if the form holds none) and
\* the elements targets that pending timers refer to: the element that shows
\* the message, a new one if there was none, which the new timer will remove.
showFormSuccess(div, targets) ==
    IF div # 0 THEN div
    ELSE CHOOSE n \in 1..(Len(targets) + 1) :
             /\ \A i \in DOMAIN targets : targets[i] # n
             /\ \A k \in 1..(n - 1) : \E i \in DOMAIN targets : targets[i] = k

\* The timer of handleFormSubmit fires: the loading state is cleared,
\* showFormSuccess shows the message and sets the timer that removes it, and
\* form.reset() empties the fields.
SubmitTimerFire ==
    /\ pc = "ready"
    /\ Pending("submit")
    /\ btnLoading' = setFormLoading(FALSE)
    /\ successDiv' = showFormSuccess(successDiv, removeTargets)
    /\ removeTargets' = Append(removeTargets, showFormSuccess(successDiv, removeTargets))
    /\ timers' = setTimeout(Fired(timers, "submit"), "remove", SuccessLifetime)
    /\ since' = [since EXCEPT !.success = 0]
    /\ fieldValue' = [f \in DOMAIN fieldValue |-> <<>>]
    /\ validity' = [f \in DOMAIN validity |-> "unchecked"]
    /\ UNCHANGED <<motionVars, resizeHandled, loadVars, themeVars, scrollVars,
                   typingVars, canvasDisplay, fieldAttrs, fieldError>>

\* A timer of showFormSuccess fires: the element it was set for is removed,
\* whether or not a later submission is showing its message in it.
RemoveTimerFire ==
    /\ pc = "ready"
    /\ Pending("remove")
    /\ timers' = Fired(timers, "remove")
    /\ removeTargets' = Tail(removeTargets)
    /\ successDiv' = IF successDiv = Head(removeTargets) THEN 0 ELSE successDiv
    /\ UNCHANGED <<motionVars, since, resizeHandled, loadVars, themeVars, scrollVars,
                   typingVars, canvasDisplay, fieldAttrs, fieldValue, validity,
                   fieldError, btnLoading>>

Next ==
    \/ Construct
    \/ MouseMove
    \/ AnimationFrame
    \/ WindowResize
    \/ ResizeTimerFire

Spec == Init /\ [][Next]_vars

----------------------------------------------------------------------------
(* The cursor follower from arbitrary rendered and target positions *)

\* Coordinates (px) the interpolation is exercised on.
LerpSamples == {0, 7, 20}

\* A running cursor follower (no particle field) whose rendered position and
\* target are drawn from LerpSamples.
InitLerp ==
    \E cx \in LerpSamples, cy \in LerpSamples, tx \in LerpSamples, ty \in LerpSamples :
        LET r == PostInit(FALSE, 1024, {"cursor"}, 0, 0, <<>>)
        IN  /\ pc = "ready"
            /\ isReducedMotion = FALSE
            /\ innerWidth = 1024
            /\ dom = {"cursor"}
            /\ heroW = 0 /\ heroH = 0
            /\ initialized = r.initialized
            /\ appError = r.appError
            /\ initWidth = 1024
            /\ mousePosition = <<tx, ty>>
            /\ cursorElTarget = <<tx, ty>>
            /\ currentX = cx * LerpScale /\ currentY = cy * LerpScale
            /\ targetX = tx * LerpScale /\ targetY = ty * LerpScale
            /\ cursorTransform = << cx * LerpScale - (CursorSize * LerpScale) \div 2,
                                    cy * LerpScale - (CursorSize * LerpScale) \div 2 >>
            /\ cursorDisplay = ""
            /\ cursorRaf = r.cursorRaf
            /\ canvasExists = r.canvasExists
            /\ canvasW = r.canvasW /\ canvasH = r.canvasH
            /\ particles = r.particles
            /\ frameOps = r.frameOps
            /\ particleRaf = r.particleRaf
            /\ resizeTimer = FALSE
            /\ frames = 0
            /\ resizeCount = 0
            /\ linked = r.linked
            /\ ReadyPage(<<>>, {"cursor"})

NextLerp == AnimationFrame

SpecLerp == InitLerp /\ [][NextLerp]_vars

----------------------------------------------------------------------------
(* The particle field with frames delivered for ever *)

InitLive ==
    \E l \in SmallLayouts : Loading(FALSE, {"hero"}, l)

\* An animation frame, not counted.
FreeFrame ==
    /\ FrameBody
    /\ UNCHANGED frames

SmallResize == \E l \in SmallLayouts : ResizeTo(l)

NextLive ==
    \/ Construct
    \/ FreeFrame
    \/ SmallResize
    \/ ResizeTimerFire

\* The browser keeps delivering animation frames while a callback is pending.
SpecLive == InitLive /\ [][NextLive]_vars /\ WF_vars(FreeFrame)

----------------------------------------------------------------------------
(* Both loops running, with every event that reaches the page *)

\* The motion state as init() leaves it under flag rm, in layout l, with the
\* anchors d and the created particles ps.
ReadyMotion(rm, l, d, ps) ==
    LET r == PostInit(rm, l.innerWidth, d, l.heroW, l.heroH, ps)
    IN  /\ pc = "ready"
        /\ isReducedMotion = rm
        /\ innerWidth = l.innerWidth
        /\ dom = d
        /\ heroW = l.heroW /\ heroH = l.heroH
        /\ initialized = r.initialized
        /\ appError = r.appError
        /\ initWidth = l.innerWidth
        /\ mousePosition = <<0, 0>>
        /\ cursorElTarget = <<>>
        /\ currentX = r.currentX /\ currentY = r.currentY
        /\ targetX = 0 /\ targetY = 0
        /\ cursorTransform = r.cursorTransform
        /\ cursorDisplay = ""
        /\ cursorRaf = r.cursorRaf
        /\ canvasExists = r.canvasExists
        /\ canvasW = r.canvasW /\ canvasH = r.canvasH
        /\ particles = r.particles
        /\ frameOps = r.frameOps
        /\ particleRaf = r.particleRaf
        /\ resizeTimer = FALSE
        /\ frames = 0
        /\ resizeCount = 0
        /\ linked = r.linked

\* A desktop page with a cursor, a hero and a navbar, and a field of one
\* particle created in the top left corner.
InitLoop ==
    \E l \in SmallLayouts :
      \E p \in {q \in ParticleSamples(l.heroW, l.heroH) : q.x = 0 /\ q.y = 0} :
        /\ ReadyMotion(FALSE, l, {"cursor", "hero", "navbar"}, <<p>>)
        /\ ReadyPage(<<>>, {"cursor", "hero", "navbar"})

NextLoop ==
    \/ FreeFrame
    \/ MouseMove
    \/ SmallResize
    \/ ResizeTimerFire
    \/ WindowScroll
    \/ ThrottleTimerFire
    \/ reducedAnimations

SpecLoop == InitLoop /\ [][NextLoop]_vars /\ WF_vars(FreeFrame)

----------------------------------------------------------------------------
(* Time *)

\* Time passes by one of the steps given, or up to the next due timer, and
\* never past a due timer.
Tick(steps) ==
    /\ pc = "ready"
    /\ \E d \in steps \cup NextDue(timers, steps) :
           /\ d > 0
           /\ \A i \in DOMAIN timers : timers[i].left >= d
           /\ timers' = [i \in DOMAIN timers |-> [timers[i] EXCEPT !.left = @ - d]]
           /\ since' = [k \in DOMAIN since |-> Min(since[k] + d, AgeCap)]
    /\ UNCHANGED <<motionVars, resizeHandled, pageVars>>

\* The timers of the loading screen, fired when due.
LoadDue == Due("load") /\ LoadTimerFire

HideDue == Due("hide") /\ HideTimerFire

----------------------------------------------------------------------------
(* Resize events in time *)

\* Time between events: half the debounce wait.
ResizeSteps == { DebounceWait \div 2 }

\* A page with a loading screen and a cursor, in a desktop or mobile layout.
InitResize ==
    \E l \in Layouts :
        /\ ReadyMotion(FALSE, l, {"loading", "cursor"}, <<>>)
        /\ ReadyPage(<<>>, {"loading", "cursor"})

\* The debounce timer fires when due.
DebounceDue == Due("resize") /\ ResizeTimerFire

TickResize == Tick(ResizeSteps)

NextResize ==
    \/ WindowResize
    \/ DebounceDue
    \/ LoadDue
    \/ HideDue
    \/ TickResize

SpecResize == InitResize /\ [][NextResize]_vars

----------------------------------------------------------------------------
(* The typing effect in time *)

\* Time between observations: the shortest delay of the effect.
TypingSteps == { DeleteSpeed }

\* A narrow page with a loading screen and a .typing-text element.
InitTyping ==
    \E l \in {k \in Layouts : k.innerWidth <= MobileBreakpoint} :
        /\ ReadyMotion(FALSE, l, {"loading", "typing"}, <<>>)
        /\ ReadyPage(<<>>, {"loading", "typing"})

TypeDue == Due("type") /\ TypeTimerFire

TickTyping == Tick(TypingSteps)

NextTyping ==
    \/ TypeDue
    \/ LoadDue
    \/ HideDue
    \/ TickTyping

\* Time passes and the browser runs the timers that are due.
SpecTyping == InitTyping /\ [][NextTyping]_vars /\ WF_vars(NextTyping)

----------------------------------------------------------------------------
(* validateField on one field *)

\* A narrow page whose form has one field, of any type, required or not,
\* holding any of the sample values.
InitValidate ==
    \E l \in {k \in Layouts : k.innerWidth <= MobileBreakpoint},
       attr \in AttrSamples, v \in ValueSamples :
        /\ ReadyMotion(FALSE, l, {"form"}, <<>>)
        /\ PageCore(<<>>, PostInitPage({"form"}, "light").dataTheme,
                    PostInitPage({"form"}, "light").timers)
        /\ FormWith([f \in {"field"} |-> attr], [f \in {"field"} |-> v])

NextValidate == Blur

SpecValidate == InitValidate /\ [][NextValidate]_vars

----------------------------------------------------------------------------
(* The contact form in time *)

\* Time between events.
FormSteps == { SubmitDelay \div 2 }

\* A narrow page with the contact form.
InitForm ==
    \E l \in {k \in Layouts : k.innerWidth <= MobileBreakpoint} :
        /\ ReadyMotion(FALSE, l, {"form"}, <<>>)
        /\ ReadyPage(<<>>, {"form"})

SubmitDue == Due("submit") /\ SubmitTimerFire

RemoveDue == Due("remove") /\ RemoveTimerFire

TickForm == Tick(FormSteps)

NextForm ==
    \/ Input
    \/ Blur
    \/ Submit
    \/ SubmitDue
    \/ RemoveDue
    \/ LoadDue
    \/ TickForm

SpecForm == InitForm /\ [][NextForm]_vars

----------------------------------------------------------------------------
(* The page without motion: loading screen, theme, throttled scroll *)

\* A narrow viewport, with or without reduced motion, any stored theme, and a
\* document that lacks at most one anchor.
InitPage ==
    \E rm \in BOOLEAN, d \in AnchorSamples, stored \in ThemeSamples :
        \E l \in {k \in Layouts : k.innerWidth <= MobileBreakpoint} :
            /\ LoadingMotion(rm, d, l)
            /\ LoadingPage(stored)

NextPage ==
    \/ Construct
    \/ LoadTimerFire
    \/ HideTimerFire
    \/ ThemeSwitchChange
    \/ WindowScroll
    \/ ThrottleTimerFire

SpecPage == InitPage /\ [][NextPage]_vars

----------------------------------------------------------------------------
(* Properties *)

CanvasWidthUnits == canvasW * UnitsPerPx

CanvasHeightUnits == canvasH * UnitsPerPx

\* The stroke calls of the latest frame.
Strokes == SelectSeq(frameOps, LAMBDA o : o.op = "stroke")

\* Largest distance a particle travels along one axis in one frame.
MaxStep == ParticleSpeed \div 2

\* Every pair of particles is within the connection distance with one frame's
\* travel to spare on each axis.
AllWithinMargin ==
    \A i, j \in 1..Len(particles) :
        (Abs(particles[i].x - particles[j].x) + MaxStep)
            * (Abs(particles[i].x - particles[j].x) + MaxStep)
        + (Abs(particles[i].y - particles[j].y) + MaxStep)
            * (Abs(particles[i].y - particles[j].y) + MaxStep)
        < ConnectDistance * ConnectDistance

\* C1 as stated: with no resize since the particles were created, every
\* particle lies within [0, surfaceWidth] x [0, surfaceHeight] after every frame.
C1_Original ==
    resizeCount = 0 =>
        \A i \in 1..Len(particles) :
            /\ 0 <= particles[i].x /\ particles[i].x <= CanvasWidthUnits
            /\ 0 <= particles[i].y /\ particles[i].y <= CanvasHeightUnits

\* C1 amended: with no resize since the particles were created, every particle
\* lies within the surface enlarged on each side by one frame's travel:
\* -|vx| <= x <= surfaceWidth + |vx| and -|vy| <= y <= surfaceHeight + |vy|.
C1_BoundedOvershoot ==
    resizeCount = 0 =>
        \A i \in 1..Len(particles) :
            /\ -Abs(particles[i].vx) <= particles[i].x
            /\ particles[i].x <= CanvasWidthUnits + Abs(particles[i].vx)
            /\ -Abs(particles[i].vy) <= particles[i].y
            /\ particles[i].y <= CanvasHeightUnits + Abs(particles[i].vy)

\* A particle that stepped past the left edge and is now moving back.
C1_Witness ==
    /\ resizeCount = 0
    /\ frames >= 1
    /\ \E i \in 1..Len(particles) : particles[i].x < 0 /\ particles[i].vx > 0

\* C2: in every frame, for each particle and each axis, the velocity component
\* is negated if the advanced coordinate is <= 0 or >= the surface size on that
\* axis, and is unchanged otherwise.
C2_FlipIffAtEdge ==
    [][ (frames' = frames + 1 /\ particleRaf > 0) =>
            \A i \in 1..Len(particles) :
                /\ particles'[i].x = particles[i].x + particles[i].vx
                /\ particles'[i].y = particles[i].y + particles[i].vy
                /\ particles'[i].vx =
                       IF particles'[i].x <= 0 \/ particles'[i].x >= CanvasWidthUnits
                       THEN -particles[i].vx ELSE particles[i].vx
                /\ particles'[i].vy =
                       IF particles'[i].y <= 0 \/ particles'[i].y >= CanvasHeightUnits
                       THEN -particles[i].vy ELSE particles[i].vy ]_vars

\* After a counted frame a particle sits exactly on the top edge with its
\* vertical velocity reversed, while it is strictly inside horizontally.
C2_Witness ==
    /\ frames >= 1
    /\ \E i \in 1..Len(particles) :
           /\ particles[i].y = 0 /\ particles[i].vy < 0
           /\ particles[i].x > 0 /\ particles[i].x < CanvasWidthUnits

C4_Original ==
    /\ \A k \in 1..Len(Strokes) :
           /\ Strokes[k].p # Strokes[k].q
           /\ Strokes[k].d2 < ConnectDistance * ConnectDistance
    /\ particleRaf > 0 =>
           \A j \in 1..(Len(particles) - 1) :
               Connects(particles[Len(particles)], particles[j])
                 <=> \E k \in 1..Len(Strokes) :
                         Strokes[k].p = Len(particles) /\ Strokes[k].q = j

\* C5 as stated: once the follower runs, the target that updateCursor moves
\* toward is the position of the latest pointer-move event.
C5_Original ==
    cursorRaf > 0 =>
        /\ targetX = mousePosition[1] * LerpScale
        /\ targetY = mousePosition[2] * LerpScale

\* C6: with a fixed target, each frame moves the rendered position by 3/20 of
\* the remaining distance on each axis: the distance to the target does not
\* grow, the target is not overshot, and a position at the target stays there.
C6_LerpConverges ==
    [][ (frames' = frames + 1 /\ cursorRaf > 0) =>
            /\ targetX' = targetX /\ targetY' = targetY
            /\ FollowSpeedDen * (currentX' - currentX) = FollowSpeedNum * (targetX - currentX)
            /\ FollowSpeedDen * (currentY' - currentY) = FollowSpeedNum * (targetY - currentY)
            /\ Abs(targetX - currentX') <= Abs(targetX - currentX)
            /\ Abs(targetY - currentY') <= Abs(targetY - currentY)
            /\ currentX <= targetX => currentX' <= targetX
            /\ currentX >= targetX => currentX' >= targetX
            /\ currentY <= targetY => currentY' <= targetY
            /\ currentY >= targetY => currentY' >= targetY ]_vars

\* Two frames in: one axis rests on the target, the other is still under way.
C6_Witness ==
    /\ frames >= 2
    /\ cursorRaf > 0
    /\ currentX = targetX
    /\ currentY # targetY /\ currentY % LerpScale # 0

\* C7: if init() ran under reduced motion or a viewport width <= 768, neither
\* loop ever runs or schedules a frame, whatever resize events follow.
C7_NeverStarts ==
    (pc = "ready" /\ (isReducedMotion \/ initWidth <= MobileBreakpoint)) =>
        /\ cursorRaf = 0 /\ particleRaf = 0
        /\ frames = 0
        /\ cursorTransform = <<>>
        /\ ~canvasExists /\ particles = <<>> /\ frameOps = <<>>

\* Started narrow, later resized above the breakpoint, the resize handled.
C7_Witness ==
    /\ pc = "ready"
    /\ ~isReducedMotion /\ initWidth <= MobileBreakpoint
    /\ dom = {"cursor", "hero"}
    /\ innerWidth > MobileBreakpoint
    /\ resizeCount > 0 /\ ~resizeTimer /\ cursorDisplay = "block"

\* C8: without a .hero there is no canvas, no particle and no animate callback;
\* without a .cursor there is no updateCursor callback; in both cases init()
\* raises nothing, completes all its steps, and the other component starts
\* exactly when motion is allowed and its own element exists.
C8_MissingAnchorSkips ==
    pc = "ready" =>
        /\ "hero" \notin dom =>
              /\ ~canvasExists /\ particles = <<>> /\ frameOps = <<>> /\ particleRaf = 0
              /\ ~appError /\ initialized = InitSteps
              /\ (cursorRaf = 1) <=>
                     (~isReducedMotion /\ initWidth > MobileBreakpoint /\ "cursor" \in dom)
        /\ "cursor" \notin dom =>
              /\ cursorRaf = 0 /\ cursorTransform = <<>> /\ cursorElTarget = <<>>
              /\ ~appError /\ initialized = InitSteps
              /\ (particleRaf = 1) <=>
                     (~isReducedMotion /\ initWidth > MobileBreakpoint /\ "hero" \in dom)

\* No .hero, a .cursor, motion allowed: the follower runs, the field does not.
C8_Witness ==
    /\ pc = "ready"
    /\ dom = {"cursor"}
    /\ cursorRaf = 1 /\ particleRaf = 0
    /\ frames >= 1

\* C9 as stated: a particle that lies outside the surface after a resize is
\* eventually inside [0, surfaceWidth] x [0, surfaceHeight] again.
C9_Original ==
    \A i \in 1..ParticleCount :
        ( /\ resizeCount > 0 /\ Len(particles) >= i
          /\ (particles[i].x > CanvasWidthUnits \/ particles[i].y > CanvasHeightUnits) )
        ~> ( /\ Len(particles) >= i
             /\ 0 <= particles[i].x /\ particles[i].x <= CanvasWidthUnits
             /\ 0 <= particles[i].y /\ particles[i].y <= CanvasHeightUnits )

\* C10: init() and every single resize event set the canvas size to the
\* hero's current size, and a resize event leaves the particles as they are.
C10_ResizeKeepsParticles ==
    [][ /\ (pc = "loading" /\ pc' = "ready" /\ canvasExists') =>
              (canvasW' = heroW' /\ canvasH' = heroH')
        /\ (resizeCount' = resizeCount + 1 /\ canvasExists) =>
              /\ canvasW' = heroW' /\ canvasH' = heroH'
              /\ particles' = particles ]_vars

\* A resize event shrank the canvas under running particles; the debounced
\* handler has not run yet.
C10_Witness ==
    /\ canvasExists /\ particles # <<>>
    /\ resizeCount > 0 /\ resizeTimer
    /\ canvasW = heroW /\ canvasH = heroH
    /\ \E i \in 1..Len(particles) : particles[i].x > CanvasWidthUnits

\* C11: once the loops run, each has exactly one callback pending in every
\* state, a frame leaves it so, pointer moves, resizes, scrolls and the low-FPS
\* reduction neither cancel nor duplicate it, and frames keep running for ever.
C11_LoopsNeverStop ==
    /\ [](cursorRaf = 1 /\ particleRaf = 1)
    /\ [][ FrameBody => /\ cursorTransform' # <<>>
                        /\ \A i \in 1..Len(particles) : particles'[i] # particles[i] ]_vars
    /\ []<><<FrameBody>>_vars

\* Both callbacks pending after a pointer move, a handled resize, a throttled
\* scroll and the low-FPS reduction.
C11_Witness ==
    /\ cursorRaf = 1 /\ particleRaf = 1
    /\ mousePosition # <<0, 0>>
    /\ resizeCount > 0 /\ ~resizeTimer /\ resizeHandled = 1
    /\ inThrottle
    /\ canvasDisplay = "none"

\* C12 as stated: once the throttled listener is idle again, STATE.scrollY and
\* the navbar's "scrolled" class are what the unthrottled handler would have
\* left: those of the final scroll offset.
C12_Original ==
    (pc = "ready" /\ ~inThrottle) =>
        /\ scrollY = pageYOffset
        /\ "navbar" \in dom => (navScrolled <=> pageYOffset > NavScrollThreshold)

\* C16 as stated: whichever single anchor is absent, once the timers of the
\* loading screen have run STATE.isLoading is false and startAnimations has run.
C16_Original ==
    (pc = "ready" /\ ~Pending("load") /\ ~Pending("hide")) =>
        (~isLoading /\ animationsStarted)

\* C19: after init() the data-theme attribute equals STATE.currentTheme; after
\* a toggle localStorage 'theme' equals STATE.currentTheme, which is 'light' or
\* 'dark' whatever was stored; from 'light' or 'dark' two toggles in a row
\* give the original theme back.
C19_ThemeConsistent ==
    /\ currentTheme = themeHistory[Len(themeHistory)]
    /\ pc = "ready" => dataTheme = <<currentTheme>>
    /\ Len(themeHistory) > 1 =>
           /\ storedTheme = <<currentTheme>>
           /\ currentTheme \in {"light", "dark"}
    /\ \A k \in 1..(Len(themeHistory) - 2) :
           themeHistory[k] \in {"light", "dark"} => themeHistory[k + 2] = themeHistory[k]

\* Started from a stored 'blue' and toggled three times.
C19_Witness ==
    themeHistory = <<"blue", "light", "dark", "light">>

\* The pending timers of the debounced resize listener.
ResizeTimers == {i \in DOMAIN timers : timers[i].kind = "resize"}

\* C13: at most one debounce timer is pending; while less than 250 time units
\* have passed since the latest resize event handleWindowResize has not run
\* since that event and the timer is due 250 units after it; the handler runs
\* only 250 units after the latest event, and once that time is over it has
\* run exactly once.
C13_DebouncedOnce ==
    /\ [] /\ Cardinality(ResizeTimers) <= 1
          /\ resizeTimer <=> ResizeTimers # {}
          /\ resizeHandled <= 1
          /\ (resizeCount > 0 /\ since.resize < DebounceWait) =>
                 /\ resizeHandled = 0
                 /\ \A i \in ResizeTimers : timers[i].left = DebounceWait - since.resize
                 /\ ResizeTimers # {}
          /\ (resizeCount > 0 /\ since.resize > DebounceWait) => resizeHandled = 1
    /\ [][ resizeHandled' = resizeHandled + 1 =>
               (since.resize = DebounceWait /\ since'.resize = DebounceWait) ]_vars

\* Two resize events half a debounce wait apart, handled once, a debounce wait
\* after the second: the loading timer shows the time that has passed.
C13_Witness ==
    /\ resizeCount = 2 /\ resizeHandled = 1
    /\ since.resize = DebounceWait
    /\ \E i \in DOMAIN timers :
           timers[i] = [kind |-> "load",
                        left |-> LoadingDelay - DebounceWait - DebounceWait \div 2]

\* The text the typing effect is working on.
CurrentText == TypingTexts[currentTextIndex + 1]

\* C20: the character index stays within 0 .. length of the current text and
\* the element shows the prefix of that length; a run of type adds one
\* character until the text is complete and only then starts deleting, removes
\* one character until the element is empty and only then moves to the next
\* text, the first following the last; exactly one type timer is pending in
\* every state, and every text is shown in full again and again.
C20_TypingCycle ==
    /\ [] /\ currentTextIndex \in 0..(Len(TypingTexts) - 1)
          /\ 0 <= currentCharIndex /\ currentCharIndex <= Len(CurrentText)
          /\ textContent = SubSeq(CurrentText, 1, currentCharIndex)
          /\ Cardinality({i \in DOMAIN timers : timers[i].kind = "type"}) = 1
    /\ [][ TypeTimerFire =>
              IF ~isDeleting
              THEN /\ currentCharIndex' = currentCharIndex + 1
                   /\ currentTextIndex' = currentTextIndex
                   /\ isDeleting' <=> currentCharIndex' = Len(CurrentText)
              ELSE /\ currentCharIndex' = currentCharIndex - 1
                   /\ isDeleting' <=> currentCharIndex' # 0
                   /\ currentTextIndex' =
                          IF currentCharIndex' = 0
                          THEN (currentTextIndex + 1) % Len(TypingTexts)
                          ELSE currentTextIndex ]_vars
    /\ \A k \in 1..Len(TypingTexts) :
           /\ []<>(textContent = TypingTexts[k] /\ isDeleting)
           /\ []<>(textContent = <<>> /\ ~isDeleting /\ currentTextIndex = k - 1)

\* The last text has been typed and deleted, and the first is being typed again.
C20_Witness ==
    /\ currentTextIndex = 0 /\ ~isDeleting
    /\ currentCharIndex = 1 /\ textContent = <<"F">>
    /\ \E i \in DOMAIN timers : timers[i] = [kind |-> "type", left |-> TypingSpeed]
    /\ ~Pending("load") /\ loadingScreen = "removed"

\* The value consists of whitespace only.
IsBlank(v) == \A i \in DOMAIN v : v[i] \in Whitespace

\* The value between its first and its last character that is not whitespace.
Core(v) ==
    LET solid == {i \in DOMAIN v : v[i] \notin Whitespace}
    IN  IF solid = {} THEN <<>>
        ELSE SubSeq(v, CHOOSE i \in solid : \A j \in solid : i <= j,
                       CHOOSE i \in solid : \A j \in solid : i >= j)

\* local@domain.tld: exactly one '@', no whitespace, something before the
\* '@', and after it a '.' with something on both sides.
HasEmailShape(w) ==
    /\ Cardinality({i \in DOMAIN w : w[i] = "@"}) = 1
    /\ \A i \in DOMAIN w : w[i] \notin Whitespace
    /\ \E at \in DOMAIN w :
           /\ w[at] = "@"
           /\ at > 1
           /\ \E dot \in (at + 2)..(Len(w) - 1) : w[dot] = "."

\* C15: validateField returns invalid for a required field that is empty once
\* trimmed; for an email field that is not it returns valid exactly when the
\* trimmed value has the shape local@domain.tld, so for 'a@b.co' and not for
\* 'a@b'; it returns valid for an empty email field that is not required; and
\* it shows a message exactly when it returns invalid.
C15_FieldValidation ==
    \A f \in DOMAIN fieldAttrs :
        validity[f] # "unchecked" =>
            /\ (fieldAttrs[f].required /\ IsBlank(fieldValue[f])) =>
                   validity[f] = "invalid"
            /\ (fieldAttrs[f].type = "email" /\ ~IsBlank(fieldValue[f])) =>
                   (validity[f] = "valid" <=> HasEmailShape(Core(fieldValue[f])))
            /\ (fieldAttrs[f].type = "email" /\ ~fieldAttrs[f].required
                   /\ IsBlank(fieldValue[f])) => validity[f] = "valid"
            /\ (fieldAttrs[f].type = "email"
                   /\ fieldValue[f] = <<"a", "@", "b", ".", "c", "o">>) =>
                   validity[f] = "valid"
            /\ (fieldAttrs[f].type = "email" /\ fieldValue[f] = <<"a", "@", "b">>) =>
                   validity[f] = "invalid"
            /\ validity[f] = "invalid" <=> fieldError[f] # ""

\* A required email field holding 'a@b.co' has been found valid.
C15_Witness ==
    \E f \in DOMAIN fieldAttrs :
        /\ fieldAttrs[f] = [type |-> "email", required |-> TRUE]
        /\ fieldValue[f] = <<"a", "@", "b", ".", "c", "o">>
        /\ validity[f] = "valid"

\* The field is invalid: required and blank, or an email field that is not
\* blank and has not the shape of an address.
FieldInvalid(f) ==
    \/ fieldAttrs[f].required /\ IsBlank(fieldValue[f])
    \/ /\ fieldAttrs[f].type = "email"
       /\ ~IsBlank(fieldValue[f])
       /\ ~HasEmailShape(Core(fieldValue[f]))

InvalidRequired == {f \in DOMAIN fieldAttrs : fieldAttrs[f].required /\ FieldInvalid(f)}

SubmitTimers == {i \in DOMAIN timers : timers[i].kind = "submit"}

\* C14: when the submit handler runs on a form with an invalid required field,
\* the button does not enter the loading state, no timer is set, the success
\* message is not shown, the values stay, and every invalid required field
\* shows a message.
C14_InvalidBlocksSubmit ==
    [][ (Submit /\ InvalidRequired # {}) =>
            /\ ~btnLoading'
            /\ timers' = timers
            /\ successDiv' = successDiv
            /\ fieldValue' = fieldValue
            /\ \A f \in InvalidRequired : fieldError'[f] # "" /\ validity'[f] = "invalid" ]_vars

\* Submitted with a valid name and two invalid fields: both show a message.
C14_Witness ==
    /\ validity = [name |-> "valid", email |-> "invalid", message |-> "invalid"]
    /\ fieldError.email = "Please enter a valid email address"
    /\ fieldError.message = "This field is required"
    /\ ~btnLoading /\ SubmitTimers = {}

\* C17: the submit handler on a fully valid form puts the button in the loading
\* state; the button stays so while less than 2000 time units have passed,
\* with the one timer due 2000 units after the submit; the loading state ends
\* only 2000 units after the submit, in a step that also shows the success
\* message and empties the fields; the button is loading exactly while the
\* timer is pending.
C17_SubmitSucceeds ==
    /\ [] /\ btnLoading <=> SubmitTimers # {}
          /\ Cardinality(SubmitTimers) <= 1
          /\ since.submit < SubmitDelay =>
                 /\ btnLoading
                 /\ \A i \in SubmitTimers : timers[i].left = SubmitDelay - since.submit
    /\ [][ /\ (Submit /\ InvalidRequired = {}) => (btnLoading' /\ since'.submit = 0)
           /\ (btnLoading /\ ~btnLoading') =>
                  /\ since.submit = SubmitDelay
                  /\ successDiv' # 0
                  /\ since'.success = 0
                  /\ fieldValue' = [f \in DOMAIN fieldValue |-> <<>>] ]_vars

\* A submission has completed: the button is enabled, the message shown, the
\* fields empty, 2000 time units after the submit.
C17_Witness ==
    /\ ~btnLoading /\ successDiv # 0
    /\ since.submit = SubmitDelay /\ since.success = 0
    /\ fieldValue = [f \in DOMAIN fieldValue |-> <<>>]

\* C18 as stated: the success message is visible while less than 5000 time
\* units have passed since the latest completed submission.
C18_Original ==
    since.success < SuccessLifetime => successDiv # 0

====
